---------------------------- MODULE Spec2Model ----------------------------
(***************************************************************************)
(* The ledger of blockchain-server (blockchain.js): blocks, transactions,  *)
(* wallets and the Blockchain object with its pending queue.               *)
(*                                                                         *)
(* JavaScript strings are sequences of characters.  A character is a TLA+  *)
(* string; runs of text that hold no digit and are never split (JSON       *)
(* punctuation and keys, the text "null", key material) are one element.   *)
(* Numbers are converted to their decimal digits, one element per digit,   *)
(* so that string concatenation is what it is in the code.                 *)
(***************************************************************************)
EXTENDS Integers, Sequences, FiniteSets, TLC

\* ------------------------------------------------------------- bounds
\* Blocks in the chain, the genesis block included.
MaxChain == 3
\* User transactions waiting in the queue.
MaxPending == 2
\* Largest value of the clock read by Date.now().
MaxTime == 1
\* Largest nonce the proof-of-work search tries.
MaxNonce == 40
\* Number of leading digest characters the model computes digit by digit.
HeadLen == 3
\* Number of different values of one computed digest character.
DigitBase == 4
\* Number of bytes of a private key, standing for the 32 of secp256k1.
KeyLen == 2

\* ------------------------------------------------- program constants
Difficulty == 2
MiningReward == 100

\* ------------------------------------------------------------ strings
HexDigits == <<"0", "1", "2", "3", "4", "5", "6", "7", "8", "9",
               "a", "b", "c", "d", "e", "f">>

\* Every character (element of a string) of the model.
Alphabet ==
    HexDigits \o
    << "-", "null", "undefined", "[", "]", ",", "}", "\"",
       "{\"fromAddress\":", ",\"toAddress\":", ",\"amount\":",
       ",\"timestamp\":", ",\"signature\":", "{\"signature\":",
       ",\"recovery\":", "pub", "sig", "kA", "kB", "kC", "k?",
       "NaN" >>

CharCode ==
    [c \in {Alphabet[i] : i \in DOMAIN Alphabet} |->
        CHOOSE i \in DOMAIN Alphabet : Alphabet[i] = c]

\* The code of a character; the element that stands for the rest of a digest
\* (see Sha256) has code 0.
CodeOf(c) == IF c \in DOMAIN CharCode THEN CharCode[c] ELSE 0

\* The JavaScript value null where a string is expected (not a string).
Null == <<"null!">>
\* The JavaScript value undefined of a field not assigned yet.
Undefined == -1

RECURSIVE Dec(_)
Dec(n) ==
    IF n < 10 THEN <<HexDigits[n + 1]>>
    ELSE Dec(n \div 10) \o <<HexDigits[(n % 10) + 1]>>

\* The number NaN, which no integer of the model equals.
NaN == -1000000

IsNaN(x) == x = NaN

\* a + b, a - b, a < b and a <= b on numbers: NaN makes a sum NaN and a
\* comparison false.
Add(a, b) == IF IsNaN(a) \/ IsNaN(b) THEN NaN ELSE a + b
Sub(a, b) == IF IsNaN(a) \/ IsNaN(b) THEN NaN ELSE a - b
Lt(a, b) == ~IsNaN(a) /\ ~IsNaN(b) /\ a < b
Le(a, b) == ~IsNaN(a) /\ ~IsNaN(b) /\ a <= b

\* String(n) for an integer n or NaN.
NumToStr(n) ==
    IF IsNaN(n) THEN <<"NaN">>
    ELSE IF n < 0 THEN <<"-">> \o Dec(-n) ELSE Dec(n)

\* The string a value becomes under the + operator.
ToStr(v) == IF v = Null THEN <<"null">> ELSE v

\* !v for a value that is a string or null.
Falsy(v) == v = Null \/ v = <<>>

\* ------------------------------------------------------------ SHA-256
RECURSIVE MixRange(_, _, _)
\* The weighted sum of the characters lo..hi of s, by halving the range.
MixRange(s, lo, hi) ==
    IF lo > hi THEN 0
    ELSE IF lo = hi THEN CodeOf(s[lo]) * ((lo % 7) + 1)
    ELSE LET mid == (lo + hi) \div 2
         IN  (MixRange(s, lo, mid) + MixRange(s, mid + 1, hi)) % 1009

\* A deterministic scrambling of the characters of s and their places.
Mix(s) == (MixRange(s, 1, Len(s)) + Len(s)) % 1009

RECURSIVE Power(_, _)
Power(b, e) == IF e = 0 THEN 1 ELSE b * Power(b, e - 1)

\* The first HeadLen characters of the digest of s.
DigestHead(s) ==
    LET m == Mix(s)
    IN  [i \in 1..HeadLen |->
            HexDigits[((m \div Power(DigitBase, i - 1)) % DigitBase) + 1]]

RECURSIVE TextRange(_, _, _)
\* The characters lo..hi of s written one after the other.
TextRange(s, lo, hi) ==
    IF lo > hi THEN ""
    ELSE IF lo = hi THEN s[lo]
    ELSE LET mid == (lo + hi) \div 2
         IN  TextRange(s, lo, mid) \o TextRange(s, mid + 1, hi)

\* crypto.createHash('sha256').update(s).digest('hex'): the leading
\* characters are computed from s; the rest of the digest is one element,
\* the text of s between "<" and ">", so that different inputs have
\* different digests (no collisions) and a digest has a fixed length.
Digest(s) == DigestHead(s) \o << "<" \o TextRange(s, 1, Len(s)) \o ">" >>

\* The input is put together once, then hashed.
Sha256(s) == CHOOSE h \in {Digest(input) : input \in {s}} : TRUE

\* ---------------------------------------------------------- secp256k1
PrivateKeys == {"kA", "kB", "kC"}

\* The value a failing library call throws, caught by the caller.
Throws == <<"throw!">>

publicKeyCreate(k) == <<"pub", k>>

\* The public key recovered from a signature that was not made over the
\* message: the key of no wallet.
StrangerKey == <<"pub", "k?">>

WellFormedSig(sig) ==
    /\ Len(sig) >= 2
    /\ sig[1] = "sig"
    /\ sig[2] \in PrivateKeys

RecId(msgHash) == Mix(msgHash) % 2

\* ecdsaSign always reporting recovery id 0.
ecdsaSignRecidZero(msgHash, k) ==
    [signature |-> <<"sig", k>> \o msgHash, recid |-> 0]

ecdsaSign(msgHash, k) ==
    [signature |-> <<"sig", k>> \o msgHash, recid |-> RecId(msgHash)]

ecdsaRecover(sig, recid, msgHash) ==
    IF ~WellFormedSig(sig) \/ recid \notin {0, 1} THEN Throws
    ELSE IF SubSeq(sig, 3, Len(sig)) = msgHash /\ recid = RecId(msgHash)
         THEN publicKeyCreate(sig[2])
         ELSE StrangerKey

ecdsaVerify(sig, msgHash, pub) ==
    /\ WellFormedSig(sig)
    /\ SubSeq(sig, 3, Len(sig)) = msgHash
    /\ pub = publicKeyCreate(sig[2])

\* -------------------------------------------------------------- Wallet
\* The address of the wallet of private key k.
WalletAddress(k) == Sha256(publicKeyCreate(k))


\* --------------------------------------------------------- Transaction
NoSignature == [isNull |-> TRUE, signature |-> <<>>, recovery |-> 0]

\* new Transaction(fromAddress, toAddress, amount) at clock value t.
NewTransaction(fromAddress, toAddress, amount, t) ==
    [fromAddress |-> fromAddress, toAddress |-> toAddress, amount |-> amount,
     timestamp |-> t, signature |-> NoSignature]

\* The text transaction.calculateHash() hashes.
TxHashInput(tx) ==
    ToStr(tx.fromAddress) \o ToStr(tx.toAddress)
    \o NumToStr(tx.amount) \o NumToStr(tx.timestamp)

TxCalculateHash(tx) == Sha256(TxHashInput(tx))

\* tx.signTransaction(k) with a well-formed private key k.
SignTransaction(tx, k) ==
    LET sigObj == ecdsaSign(TxCalculateHash(tx), k)
    IN  [tx EXCEPT !.signature = [isNull |-> FALSE,
                                  signature |-> sigObj.signature,
                                  recovery |-> sigObj.recid]]

\* isValid() answering true when the recovery of the public key throws.
IsValidFailOpen(tx) ==
    IF tx.fromAddress = Null THEN TRUE
    ELSE IF tx.signature.isNull \/ tx.signature.signature = <<>> THEN FALSE
    ELSE LET msgHash == TxCalculateHash(tx)
             recoveredPubKey == ecdsaRecover(tx.signature.signature,
                                             tx.signature.recovery, msgHash)
         IN  IF recoveredPubKey = Throws THEN TRUE
             ELSE IF Sha256(recoveredPubKey) # tx.fromAddress THEN FALSE
             ELSE ecdsaVerify(tx.signature.signature, msgHash, recoveredPubKey)

IsValid(tx) ==
    IF tx.fromAddress = Null THEN TRUE
    ELSE IF tx.signature.isNull \/ tx.signature.signature = <<>> THEN FALSE
    ELSE LET msgHash == TxCalculateHash(tx)
             recoveredPubKey == ecdsaRecover(tx.signature.signature,
                                             tx.signature.recovery, msgHash)
         IN  IF recoveredPubKey = Throws THEN FALSE
             ELSE IF Sha256(recoveredPubKey) # tx.fromAddress THEN FALSE
             ELSE ecdsaVerify(tx.signature.signature, msgHash, recoveredPubKey)

\* -------------------------------------------------------------- Wallet
\* The bytes of the private keys: a key with bytes below 16, one with high
\* bytes and one with a zero byte.
KeyBuffer ==
    [k \in PrivateKeys |->
        [i \in 1..KeyLen |->
            IF k = "kA" THEN (5 * i) % 256
            ELSE IF k = "kB" THEN 256 - i
            ELSE IF i = 1 THEN 16 ELSE 0]]

ZeroBuffer == [i \in 1..KeyLen |-> 0]

RECURSIVE ToHexUnpadded(_)
\* A hex text with a single character for a byte below 16.
ToHexUnpadded(buf) ==
    IF buf = <<>> THEN <<>>
    ELSE (IF buf[1] < 16 THEN <<HexDigits[buf[1] + 1]>>
          ELSE <<HexDigits[(buf[1] \div 16) + 1],
                 HexDigits[(buf[1] % 16) + 1]>>)
         \o ToHexUnpadded(Tail(buf))

\* buffer.toString('hex'): two lowercase hex characters for every byte.
ToHex(buf) ==
    [i \in 1..(2 * Len(buf)) |->
        LET b == buf[(i + 1) \div 2]
        IN  IF i % 2 = 1 THEN HexDigits[(b \div 16) + 1]
            ELSE HexDigits[(b % 16) + 1]]

\* The value of a hex character, -1 for any other character.
HexValue(c) == IF CodeOf(c) \in 1..16 THEN CodeOf(c) - 1 ELSE -1

RECURSIVE FromHexAt(_, _)
\* Buffer.from(s, 'hex') from place i on: pairs of hex characters are
\* decoded up to the first pair that is not hex or not complete.
FromHexAt(s, i) ==
    IF i + 1 > Len(s) THEN <<>>
    ELSE IF HexValue(s[i]) < 0 \/ HexValue(s[i + 1]) < 0 THEN <<>>
    ELSE <<16 * HexValue(s[i]) + HexValue(s[i + 1])>> \o FromHexAt(s, i + 2)

FromHex(s) == FromHexAt(s, 1)

\* secp256k1.privateKeyVerify: the valid scalars are the keys of the model.
privateKeyVerify(buf) == \E k \in PrivateKeys : KeyBuffer[k] = buf

\* The key a valid buffer holds.
KeyOf(buf) == CHOOSE k \in PrivateKeys : KeyBuffer[k] = buf

NoWallet == [privateKey |-> <<>>, publicKey |-> <<>>, address |-> <<>>]

\* wallet.generate() when the random bytes drawn are those of key k.
WalletGenerate(k) ==
    LET privateKey == KeyBuffer[k]
        publicKey == publicKeyCreate(k)
    IN  [privateKey |-> ToHex(privateKey),
         publicKey |-> publicKey,
         address |-> Sha256(publicKey)]

\* wallet.fromPrivateKey(privateKeyHex): the wallet, or NoWallet when the
\* call throws.
WalletFromPrivateKey(privateKeyHex) ==
    LET privateKey == FromHex(privateKeyHex)
    IN  IF Len(privateKey) # KeyLen THEN NoWallet
        ELSE IF ~privateKeyVerify(privateKey) THEN NoWallet
        ELSE LET publicKey == publicKeyCreate(KeyOf(privateKey))
             IN  [privateKey |-> privateKeyHex,
                  publicKey |-> publicKey,
                  address |-> Sha256(publicKey)]

\* tx.signTransaction(signingKey) with a hex string: the signed
\* transaction, or tx as it was when the call throws.
SignWithKey(tx, signingKey) ==
    IF signingKey = <<>> THEN tx
    ELSE LET privateKeyBuffer == FromHex(signingKey)
         IN  IF Len(privateKeyBuffer) # KeyLen THEN tx
             ELSE IF ~privateKeyVerify(privateKeyBuffer) THEN tx
             ELSE SignTransaction(tx, KeyOf(privateKeyBuffer))

SignThrows(signingKey) ==
    \/ signingKey = <<>>
    \/ Len(FromHex(signingKey)) # KeyLen
    \/ ~privateKeyVerify(FromHex(signingKey))

\* ------------------------------------------------------ JSON.stringify
JsonString(v) == IF v = Null THEN <<"null">> ELSE <<"\"">> \o v \o <<"\"">>

JsonSignature(sig) ==
    IF sig.isNull THEN <<"null">>
    ELSE <<"{\"signature\":">> \o JsonString(sig.signature)
         \o <<",\"recovery\":">> \o NumToStr(sig.recovery) \o <<"}">>

JsonTransaction(tx) ==
    <<"{\"fromAddress\":">> \o JsonString(tx.fromAddress)
    \o <<",\"toAddress\":">> \o JsonString(tx.toAddress)
    \o <<",\"amount\":">> \o NumToStr(tx.amount)
    \o <<",\"timestamp\":">> \o NumToStr(tx.timestamp)
    \o <<",\"signature\":">> \o JsonSignature(tx.signature) \o <<"}">>

RECURSIVE JsonItems(_, _)
JsonItems(txs, i) ==
    IF i > Len(txs) THEN <<>>
    ELSE (IF i > 1 THEN <<",">> ELSE <<>>) \o JsonTransaction(txs[i])
         \o JsonItems(txs, i + 1)

\* JSON.stringify(transactions)
JsonStringify(txs) == <<"[">> \o JsonItems(txs, 1) \o <<"]">>

\* --------------------------------------------------------------- Block
NonceStr(n) == IF n = Undefined THEN <<"undefined">> ELSE NumToStr(n)

\* block.calculateHash(): index + timestamp is a sum of two numbers, the
\* rest is string concatenation.
BlockHashInput(b) ==
    NumToStr(b.index + b.timestamp) \o JsonStringify(b.transactions)
    \o b.previousHash \o NonceStr(b.nonce)

BlockCalculateHash(b) == Sha256(BlockHashInput(b))

\* new Block(index, timestamp, transactions, previousHash): the hash is
\* computed before the nonce is assigned.
NewBlock(index, timestamp, transactions, previousHash) ==
    LET this == [index |-> index, timestamp |-> timestamp,
                 transactions |-> transactions, previousHash |-> previousHash,
                 hash |-> <<>>, nonce |-> Undefined]
        hashed == [this EXCEPT !.hash = BlockCalculateHash(this)]
    IN  [hashed EXCEPT !.nonce = 0]

RECURSIVE Zeros(_)
\* Array(n + 1).join('0')
Zeros(n) == IF n = 0 THEN <<>> ELSE <<"0">> \o Zeros(n - 1)

\* hash.substring(0, n)
Substring0(s, n) == SubSeq(s, 1, IF n < Len(s) THEN n ELSE Len(s))

\* The loop condition of mineBlock comparing one character less.
MeetsDifficultyShort(hash, d) ==
    Substring0(hash, d - 1) = Zeros(d - 1)

\* The condition that ends the loop of mineBlock.
MeetsDifficulty(hash, d) == Substring0(hash, d) = Zeros(d)

RECURSIVE MineBlock(_, _)
\* block.mineBlock(d): the block when the loop ends.  The search is cut off
\* at MaxNonce, where the block returned does not meet the difficulty.
MineBlock(b, d) ==
    IF MeetsDifficulty(b.hash, d) \/ b.nonce >= MaxNonce THEN b
    ELSE LET next == [b EXCEPT !.nonce = b.nonce + 1]
         IN  MineBlock([next EXCEPT !.hash = BlockCalculateHash(next)], d)

\* ---------------------------------------------------------- Blockchain
VARIABLES
    chain,                \* this.chain
    pendingTransactions,  \* this.pendingTransactions
    difficulty,           \* this.difficulty
    miningReward,         \* this.miningReward
    now,                  \* the clock read by Date.now()
    pc,                   \* "idle", or "mining" inside minePendingTransactions
    block,                \* the block minePendingTransactions is building
    last,                 \* the last call: its outcome ("running" until it
                          \* returns) and, for a mining call, its argument
    admitted,             \* history: the transactions addTransaction accepted
    client                \* the caller's wallet and the transaction it builds

vars == <<chain, pendingTransactions, difficulty, miningReward, now, pc,
          block, last, admitted, client>>

createGenesisBlock(t) == NewBlock(0, t, <<>>, <<"0">>)

getLatestBlock(c) == c[Len(c)]

RECURSIVE BalanceInBlockCreditsOnly(_, _, _, _)
\* The inner loop of getBalanceOfAddress without the debit of the sender.
BalanceInBlockCreditsOnly(txs, i, address, balance) ==
    IF i > Len(txs) THEN balance
    ELSE LET trans == txs[i]
             credited == IF trans.toAddress = address
                         THEN Add(balance, trans.amount) ELSE balance
         IN  BalanceInBlockCreditsOnly(txs, i + 1, address, credited)

RECURSIVE BalanceInBlock(_, _, _, _)
\* The inner loop of getBalanceOfAddress, from transaction i on.
BalanceInBlock(txs, i, address, balance) ==
    IF i > Len(txs) THEN balance
    ELSE LET trans == txs[i]
             debited == IF trans.fromAddress = address
                        THEN Sub(balance, trans.amount) ELSE balance
             credited == IF trans.toAddress = address
                         THEN Add(debited, trans.amount) ELSE debited
         IN  BalanceInBlock(txs, i + 1, address, credited)

RECURSIVE BalanceFrom(_, _, _, _)
\* The outer loop of getBalanceOfAddress, from block i on.
BalanceFrom(c, i, address, balance) ==
    IF i > Len(c) THEN balance
    ELSE BalanceFrom(c, i + 1, address,
                     BalanceInBlock(c[i].transactions, 1, address, balance))

\* getBalanceOfAddress scanning the queue after the blocks.
getBalanceCountingQueue(c, address) ==
    BalanceInBlock(pendingTransactions, 1, address,
                   BalanceFrom(c, 1, address, 0))

getBalanceOfAddress(c, address) == BalanceFrom(c, 1, address, 0)

RECURSIVE ChainValidFromLinksOnly(_, _)
\* The loop of isChainValid without the recomputation of the block's hash.
ChainValidFromLinksOnly(c, i) ==
    IF i > Len(c) THEN TRUE
    ELSE IF c[i].previousHash # c[i - 1].hash THEN FALSE
    ELSE IF \E j \in DOMAIN c[i].transactions :
                LET tx == c[i].transactions[j]
                IN  ~IsValid(tx) /\ tx.fromAddress # Null
         THEN FALSE
    ELSE ChainValidFromLinksOnly(c, i + 1)

RECURSIVE ChainValidFrom(_, _)
\* The loop of isChainValid from position i (the block of index i - 1) on.
ChainValidFrom(c, i) ==
    IF i > Len(c) THEN TRUE
    ELSE LET currentBlock == c[i]
             previousBlock == c[i - 1]
         IN  IF currentBlock.hash # BlockCalculateHash(currentBlock) THEN FALSE
             ELSE IF currentBlock.previousHash # previousBlock.hash THEN FALSE
             ELSE IF \E j \in DOMAIN currentBlock.transactions :
                        LET tx == currentBlock.transactions[j]
                        IN  ~IsValid(tx) /\ tx.fromAddress # Null
                  THEN FALSE
             ELSE ChainValidFrom(c, i + 1)

isChainValid(c) == ChainValidFrom(c, 2)

\* addTransaction demanding a balance above the amount.
AddTransactionResultAbove(c, tx) ==
    IF Falsy(tx.fromAddress) \/ Falsy(tx.toAddress) THEN "MissingAddress"
    ELSE IF Le(tx.amount, 0) THEN "InvalidAmount"
    ELSE IF tx.fromAddress # Null /\ ~IsValid(tx) THEN "InvalidSignature"
    ELSE IF tx.fromAddress # Null
            /\ Le(getBalanceOfAddress(c, tx.fromAddress), tx.amount)
         THEN "InsufficientBalance"
    ELSE "ok"

\* addTransaction without the test of the addresses.
AddTransactionResultAnyAddress(c, tx) ==
    IF Le(tx.amount, 0) THEN "InvalidAmount"
    ELSE IF tx.fromAddress # Null /\ ~IsValid(tx) THEN "InvalidSignature"
    ELSE IF tx.fromAddress # Null
            /\ Lt(getBalanceOfAddress(c, tx.fromAddress), tx.amount)
         THEN "InsufficientBalance"
    ELSE "ok"

\* addTransaction testing the amount before the addresses.
AddTransactionResultAmountFirst(c, tx) ==
    IF Le(tx.amount, 0) THEN "InvalidAmount"
    ELSE IF Falsy(tx.fromAddress) \/ Falsy(tx.toAddress) THEN "MissingAddress"
    ELSE IF tx.fromAddress # Null /\ ~IsValid(tx) THEN "InvalidSignature"
    ELSE IF tx.fromAddress # Null
            /\ Lt(getBalanceOfAddress(c, tx.fromAddress), tx.amount)
         THEN "InsufficientBalance"
    ELSE "ok"

\* The outcome of addTransaction(tx): the error thrown, or "ok".
AddTransactionResult(c, tx) ==
    IF Falsy(tx.fromAddress) \/ Falsy(tx.toAddress) THEN "MissingAddress"
    ELSE IF Le(tx.amount, 0) THEN "InvalidAmount"
    ELSE IF tx.fromAddress # Null /\ ~IsValid(tx) THEN "InvalidSignature"
    ELSE IF tx.fromAddress # Null
            /\ Lt(getBalanceOfAddress(c, tx.fromAddress), tx.amount)
         THEN "InsufficientBalance"
    ELSE "ok"

\* ---------------------------------------------------------------- inputs
AddrA == WalletAddress("kA")
AddrB == WalletAddress("kB")
AddrC == WalletAddress("kC")

Senders == {AddrA, Null}
Recipients == {AddrB, Null}
Amounts == {-5, 0, MiningReward}
Signers == {"none", "kA"}
Miners == {AddrA, AddrC}

\* A transaction as a caller builds it at clock value t: created, and signed
\* with key k unless k is "none".
BuiltTransaction(f, r, a, t, k) ==
    IF k = "none" THEN NewTransaction(f, r, a, t)
    ELSE SignTransaction(NewTransaction(f, r, a, t), k)

\* A transfer signed by its sender and then changed, or signed by another
\* wallet's key.
ForgedTransactions(t) ==
    LET tx == BuiltTransaction(AddrA, AddrB, MiningReward, t, "kA")
    IN  { BuiltTransaction(AddrA, AddrB, MiningReward, t, "kB"),
          [tx EXCEPT !.amount = tx.amount - 1],
          [tx EXCEPT !.timestamp = tx.timestamp + 1] }

\* The transactions a caller can hand to addTransaction at clock value t.
TxInputsAt ==
    [t \in 0..MaxTime |->
        { BuiltTransaction(f, r, a, t, k) :
            f \in Senders, r \in Recipients, a \in Amounts, k \in Signers }
        \cup ForgedTransactions(t)]

TxInputs(t) == TxInputsAt[t]

NoBlock == NewBlock(0, 0, <<>>, <<>>)

\* The caller before it has a wallet or a transaction.
NoTransaction == NewTransaction(Null, Null, 0, 0)

NoClient ==
    [wallet |-> NoWallet, issued |-> NoWallet, tx |-> NoTransaction,
     signedTx |-> NoTransaction, signKey |-> <<>>,
     op |-> "new", result |-> "ok"]

\* What a caller hands to fromPrivateKey and signTransaction: the key its
\* wallet got from generate(), another wallet's key, no key, the zero
\* scalar, a key one character short and a text that is not hex.
KeyInputs ==
    {client.issued.privateKey, client.wallet.privateKey,
     ToHex(KeyBuffer["kB"]), <<>>, ToHex(ZeroBuffer),
     SubSeq(ToHex(KeyBuffer["kA"]), 1, 2 * KeyLen - 1), <<"k?">>}

ClientAmounts == {11, NaN}
ChangedAmounts == {1}
ChangedTimes == {10}

\* A signed transaction with one field overwritten.
Changes(tx) ==
    ({[tx EXCEPT !.amount = a] : a \in ChangedAmounts}
     \cup {[tx EXCEPT !.timestamp = t] : t \in ChangedTimes}
     \cup {[tx EXCEPT !.signature.signature = <<"k?">>],
           [tx EXCEPT !.signature.recovery = 5],
           [tx EXCEPT !.signature = NoSignature]}) \ {tx}

\* ---------------------------------------------------------------- actions
\* A transfer of 11 signed by its sender at clock value t, with its amount,
\* its timestamp or both overwritten afterwards.
SignedThenChanged(t) ==
    LET tx == BuiltTransaction(AddrA, AddrB, 11, t, "kA")
    IN  {[tx EXCEPT !.amount = a, !.timestamp = s] :
            a \in {tx.amount} \cup ChangedAmounts,
            s \in {tx.timestamp} \cup ChangedTimes} \ {tx}

Init ==
    /\ now = 0
    /\ chain = <<createGenesisBlock(now)>>
    /\ difficulty = Difficulty
    /\ pendingTransactions = <<>>
    /\ miningReward = MiningReward
    /\ pc = "idle"
    /\ block = NoBlock
    /\ last = [op |-> "new", result |-> "ok", arg |-> <<>>]
    /\ admitted = <<>>
    /\ client = NoClient

\* Time passes between two calls.
Tick ==
    /\ pc = "idle"
    /\ now < MaxTime
    /\ now' = now + 1
    /\ UNCHANGED <<client, chain, pendingTransactions, difficulty, miningReward, pc,
                   block, last, admitted>>

\* addTransaction pushing the transaction before it checks it.
AddTransactionPushFirst(tx) ==
    /\ pc = "idle"
    /\ Len(pendingTransactions) < MaxPending
    /\ LET result == AddTransactionResult(chain, tx)
       IN  /\ last' = [op |-> "addTransaction", result |-> result,
                       arg |-> <<>>]
           /\ pendingTransactions' = Append(pendingTransactions, tx)
           /\ IF result = "ok"
              THEN admitted' = Append(admitted,
                                      [tx |-> tx, height |-> Len(chain)])
              ELSE UNCHANGED admitted
    /\ UNCHANGED <<client, chain, difficulty, miningReward, now, pc, block>>

\* addTransaction let in while minePendingTransactions is searching.
AddTransactionWhileMining(tx) ==
    /\ Len(pendingTransactions) < MaxPending
    /\ LET result == AddTransactionResult(chain, tx)
       IN  /\ last' = [op |-> "addTransaction", result |-> result,
                       arg |-> <<>>]
           /\ IF result = "ok"
              THEN /\ pendingTransactions' = Append(pendingTransactions, tx)
                   /\ admitted' = Append(admitted,
                                         [tx |-> tx, height |-> Len(chain)])
              ELSE UNCHANGED <<pendingTransactions, admitted>>
    /\ UNCHANGED <<client, chain, difficulty, miningReward, now, pc, block>>

\* addTransaction(tx), from its call to its return or throw.
AddTransaction(tx) ==
    /\ pc = "idle"
    /\ Len(pendingTransactions) < MaxPending
    /\ LET result == AddTransactionResult(chain, tx)
       IN  /\ last' = [op |-> "addTransaction", result |-> result,
                       arg |-> <<>>]
           /\ IF result = "ok"
              THEN /\ pendingTransactions' = Append(pendingTransactions, tx)
                   /\ admitted' = Append(admitted,
                                         [tx |-> tx, height |-> Len(chain)])
              ELSE UNCHANGED <<pendingTransactions, admitted>>
    /\ UNCHANGED <<client, chain, difficulty, miningReward, now, pc, block>>

\* minePendingTransactions without the push of the reward transaction.
MineStartNoReward(miningRewardAddress) ==
    /\ pc = "idle"
    /\ Len(chain) < MaxChain
    /\ block' = NewBlock(Len(chain), now, pendingTransactions,
                         getLatestBlock(chain).hash)
    /\ pc' = "mining"
    /\ last' = [op |-> "minePendingTransactions", result |-> "running",
                arg |-> miningRewardAddress]
    /\ UNCHANGED <<client, chain, pendingTransactions, difficulty, miningReward, now,
                   admitted>>

\* minePendingTransactions(a) up to the call of mineBlock: the reward
\* transaction is pushed and the block is built over the queue itself.
MineStart(miningRewardAddress) ==
    /\ pc = "idle"
    /\ Len(chain) < MaxChain
    /\ LET rewardTx == NewTransaction(Null, miningRewardAddress,
                                      miningReward, now)
           queue == Append(pendingTransactions, rewardTx)
       IN  /\ pendingTransactions' = queue
           /\ block' = NewBlock(Len(chain), now, queue,
                                getLatestBlock(chain).hash)
    /\ pc' = "mining"
    /\ last' = [op |-> "minePendingTransactions", result |-> "running",
                arg |-> miningRewardAddress]
    /\ UNCHANGED <<client, chain, difficulty, miningReward, now, admitted>>

\* The end of minePendingTransactions without the replacement of the queue.
MineFinishKeepsQueue ==
    /\ pc = "mining"
    /\ LET mined == MineBlock([block EXCEPT
                                  !.transactions = pendingTransactions],
                              difficulty)
       IN  /\ MeetsDifficulty(mined.hash, difficulty)
           /\ chain' = Append(chain, mined)
    /\ pc' = "idle"
    /\ block' = NoBlock
    /\ last' = [last EXCEPT !.result = "ok"]
    /\ UNCHANGED <<client, pendingTransactions, difficulty, miningReward, now,
                   admitted>>

\* The end of minePendingTransactions storing the block in the place of the
\* latest block.
MineFinishOverTip ==
    /\ pc = "mining"
    /\ LET mined == MineBlock([block EXCEPT
                                  !.transactions = pendingTransactions],
                              difficulty)
       IN  /\ MeetsDifficulty(mined.hash, difficulty)
           /\ chain' = [chain EXCEPT ![Len(chain)] = mined]
    /\ pendingTransactions' = <<>>
    /\ pc' = "idle"
    /\ block' = NoBlock
    /\ last' = [last EXCEPT !.result = "ok"]
    /\ UNCHANGED <<client, difficulty, miningReward, now, admitted>>

\* The rest of minePendingTransactions: the proof-of-work loop runs to its
\* end, the block is pushed and the queue replaced by an empty one.  The
\* block's transactions are the queue object, whatever it holds by now.
MineFinish ==
    /\ pc = "mining"
    /\ LET mined == MineBlock([block EXCEPT
                                  !.transactions = pendingTransactions],
                              difficulty)
       IN  /\ MeetsDifficulty(mined.hash, difficulty)
           /\ chain' = Append(chain, mined)
    /\ pendingTransactions' = <<>>
    /\ pc' = "idle"
    /\ block' = NoBlock
    /\ last' = [last EXCEPT !.result = "ok"]
    /\ UNCHANGED <<client, difficulty, miningReward, now, admitted>>

Next ==
    \/ Tick
    \/ \E tx \in TxInputs(now) : AddTransaction(tx)
    \/ \E a \in Miners : MineStart(a)
    \/ MineFinish

\* The callers of the ledger may hand it any number as an amount, NaN
\* included.
TxInputsAnyNumber(t) ==
    TxInputs(t) \cup {BuiltTransaction(AddrA, AddrB, NaN, t, "kA")}

NextAnyNumber ==
    \/ Tick
    \/ \E tx \in TxInputsAnyNumber(now) : AddTransaction(tx)
    \/ \E a \in Miners : MineStart(a)
    \/ MineFinish

SpecAnyNumber == Init /\ [][NextAnyNumber]_vars

\* ------------------------------------------------------- caller's side
\* The callers of the ledger may also hand it a transaction they changed
\* after signing it.
TxInputsChanged(t) == TxInputs(t) \cup SignedThenChanged(t)

NextChanged ==
    \/ Tick
    \/ \E tx \in TxInputsChanged(now) : AddTransaction(tx)
    \/ \E a \in Miners : MineStart(a)
    \/ MineFinish

SpecChanged == Init /\ [][NextChanged]_vars

LedgerUnchanged ==
    UNCHANGED <<chain, pendingTransactions, difficulty, miningReward, now,
                pc, block, last, admitted>>

\* wallet.generate()
ClientGenerate(k) ==
    /\ client' = [client EXCEPT !.wallet = WalletGenerate(k),
                                !.issued = WalletGenerate(k),
                                !.op = "generate", !.result = "ok"]
    /\ LedgerUnchanged

\* wallet.fromPrivateKey(privateKeyHex): the fields are assigned after the
\* checks, so a call that throws leaves the wallet as it was.
ClientFromPrivateKey(privateKeyHex) ==
    /\ LET imported == WalletFromPrivateKey(privateKeyHex)
       IN  client' = [client EXCEPT
                         !.wallet = IF imported = NoWallet THEN @
                                    ELSE imported,
                         !.op = "fromPrivateKey",
                         !.result = IF imported = NoWallet THEN "InvalidKey"
                                    ELSE "ok"]
    /\ LedgerUnchanged

\* new Transaction(fromAddress, toAddress, amount)
ClientCreate(fromAddress, toAddress, amount) ==
    /\ client.wallet # NoWallet
    /\ client' = [client EXCEPT
                     !.tx = NewTransaction(fromAddress, toAddress, amount,
                                           now),
                     !.signedTx = NoTransaction, !.signKey = <<>>,
                     !.op = "create", !.result = "ok"]
    /\ LedgerUnchanged

\* tx.signTransaction(signingKey)
ClientSign(signingKey) ==
    /\ client.tx # NoTransaction
    /\ client.signedTx = NoTransaction
    /\ LET signed == SignWithKey(client.tx, signingKey)
           thrown == SignThrows(signingKey)
       IN  client' = [client EXCEPT
                         !.tx = signed,
                         !.signedTx = IF thrown THEN @ ELSE signed,
                         !.signKey = IF thrown THEN @ ELSE signingKey,
                         !.op = "signTransaction",
                         !.result = IF ~thrown THEN "ok"
                                    ELSE IF signingKey = <<>>
                                         THEN "MissingKey"
                                    ELSE "InvalidKey"]
    /\ LedgerUnchanged

\* A field of the signed transaction is overwritten.
ClientChange ==
    /\ client.signedTx # NoTransaction
    /\ \E changed \in Changes(client.tx) :
           client' = [client EXCEPT !.tx = changed, !.op = "change",
                                    !.result = "ok"]
    /\ LedgerUnchanged

\* tx.isValid()
ClientIsValid ==
    /\ client.tx # NoTransaction
    /\ client' = [client EXCEPT
                     !.op = "isValid",
                     !.result = IF IsValid(client.tx) THEN "true"
                                ELSE "false"]
    /\ LedgerUnchanged

NextClient ==
    \/ \E k \in PrivateKeys : ClientGenerate(k)
    \/ \E privateKeyHex \in KeyInputs : ClientFromPrivateKey(privateKeyHex)
    \/ \E f \in {client.wallet.address, Null}, r \in {AddrB, Null},
          a \in ClientAmounts : ClientCreate(f, r, a)
    \/ \E signingKey \in KeyInputs : ClientSign(signingKey)
    \/ ClientChange
    \/ ClientIsValid

SpecClient == Init /\ [][NextClient]_vars

\* A difficulty no hash can meet: more zeros than a digest has characters.
TooHard == HeadLen + 2

\* The caller assigns the ledger's difficulty between two calls.
SetDifficulty(d) ==
    /\ pc = "idle"
    /\ difficulty # d
    /\ difficulty' = d
    /\ UNCHANGED <<client, chain, pendingTransactions, miningReward, now, pc,
                   block, last, admitted>>

\* minePendingTransactions returning while the hash is whatever it is.
MineBlockGivesUp ==
    /\ pc = "mining"
    /\ chain' = Append(chain, [block EXCEPT
                                   !.transactions = pendingTransactions])
    /\ pendingTransactions' = <<>>
    /\ pc' = "idle"
    /\ block' = NoBlock
    /\ last' = [last EXCEPT !.result = "ok"]
    /\ UNCHANGED <<client, difficulty, miningReward, now, admitted>>

\* One pass of the loop of mineBlock: the hash does not start with the
\* zeros, the nonce goes up by one and the hash is computed again.
MineBlockIteration ==
    /\ pc = "mining"
    /\ ~MeetsDifficulty(block.hash, difficulty)
    /\ block.nonce < MaxNonce
    /\ LET next == [block EXCEPT !.nonce = block.nonce + 1]
       IN  block' = [next EXCEPT !.hash = BlockCalculateHash(next)]
    /\ UNCHANGED <<client, chain, pendingTransactions, difficulty, miningReward,
                   now, pc, last, admitted>>

\* The loop of mineBlock ends and minePendingTransactions pushes the block,
\* replaces the queue and returns.
MineBlockReturns ==
    /\ pc = "mining"
    /\ MeetsDifficulty(block.hash, difficulty)
    /\ MineFinish

\* The calls on a ledger while the clock stands at its first value.
NextMining ==
    \/ \E tx \in TxInputs(now) : AddTransaction(tx)
    \/ \E d \in {Difficulty, TooHard} : SetDifficulty(d)
    \/ \E a \in Miners : MineStart(a)
    \/ MineBlockIteration
    \/ MineBlockReturns

\* mineBlock runs on the caller's thread without a pause until its loop
\* ends.
SpecMining ==
    /\ Init
    /\ [][NextMining]_vars
    /\ WF_vars(MineBlockIteration)
    /\ WF_vars(MineBlockReturns)

Spec == Init /\ [][Next]_vars

\* --------------------------------------------------------- properties
\* C1: after any sequence of addTransaction and minePendingTransactions
\* calls on a new ledger, isChainValid() returns true.
C1_ChainAlwaysValid == isChainValid(chain)

\* C3: every block after the genesis block holds the hash of the block
\* before it as previousHash, and its stored hash is the hash recomputed
\* from its own stored fields.
C3_LinkedAndContentAddressed ==
    \A i \in 2..Len(chain) :
        /\ chain[i].previousHash = chain[i - 1].hash
        /\ chain[i].hash = BlockCalculateHash(chain[i])

\* A chain as minePendingTransactions has just returned it.
JustMined ==
    /\ pc = "idle"
    /\ last.op = "minePendingTransactions"

\* One stored field of one block given another value.
WithHash(c, i, h) == [c EXCEPT ![i].hash = h]
WithPreviousHash(c, i, h) == [c EXCEPT ![i].previousHash = h]
WithAmount(c, i, j, a) == [c EXCEPT ![i].transactions[j].amount = a]

\* The values a corrupted hash field is given: the hash recomputed from the
\* block, every hash stored in the chain, the sentinel, and a foreign digest.
HashValues(c, i) ==
    {BlockCalculateHash(c[i]), <<"0">>, Sha256(<<"k?">>)}
        \cup {c[k].hash : k \in DOMAIN c}

AmountValues(a) == {a + 1, a - 1, 0}

HashCorruptions(c, i) ==
    {WithHash(c, i, h) : h \in HashValues(c, i) \ {c[i].hash}}

PreviousHashCorruptions(c, i) ==
    {WithPreviousHash(c, i, h) : h \in HashValues(c, i) \ {c[i].previousHash}}

AmountCorruptions(c, i) ==
    UNION {{WithAmount(c, i, j, a) :
                a \in AmountValues(c[i].transactions[j].amount)} :
           j \in DOMAIN c[i].transactions}

\* C2 as stated: on a mined chain, changing the hash, the previousHash or
\* one transaction amount of any block, the first one included, makes
\* isChainValid() return false.
C2_AnyCorruptionDetected ==
    JustMined =>
        \A i \in DOMAIN chain :
            \A c \in HashCorruptions(chain, i)
                    \cup PreviousHashCorruptions(chain, i)
                    \cup AmountCorruptions(chain, i) : ~isChainValid(c)

\* C2 as the code has it: on a mined chain, isChainValid() returns false
\* after a change of the previousHash of any block but the genesis block,
\* of the amount of any transaction, or of the stored hash of any block to
\* a value other than the hash recomputed from the block's fields.
C2_CorruptionDetected ==
    JustMined =>
        \A i \in DOMAIN chain :
            /\ \A c \in AmountCorruptions(chain, i) : ~isChainValid(c)
            /\ i > 1 =>
                \A c \in PreviousHashCorruptions(chain, i) : ~isChainValid(c)
            /\ \A c \in HashCorruptions(chain, i) :
                c[i].hash # BlockCalculateHash(chain[i]) => ~isChainValid(c)

\* A valid chain of three mined-or-genesis blocks, so that a first, a middle
\* and a last block exist, the last one carrying a signed transfer.
C2_Witness ==
    /\ JustMined
    /\ last.result = "ok"
    /\ Len(chain) = 3
    /\ isChainValid(chain)
    /\ Len(chain[3].transactions) = 2

RECURSIVE AdmittedFrom(_, _)
\* The transactions addTransaction accepted while the chain held h blocks,
\* in the order of their admission, from the i-th admission on.
AdmittedFrom(i, h) ==
    IF i > Len(admitted) THEN <<>>
    ELSE (IF admitted[i].height = h THEN <<admitted[i].tx>> ELSE <<>>)
         \o AdmittedFrom(i + 1, h)

AdmittedAt(h) == AdmittedFrom(1, h)

\* A block's transactions without the reward transaction that closes it.
UserTransactions(txs) == SubSeq(txs, 1, Len(txs) - 1)

IsReward(tx) == tx.fromAddress = Null /\ tx.signature.isNull

\* C4: a mining call takes the whole queue and clears it as one unit with
\* respect to admissions: every admitted transaction is in exactly the
\* first block mined after its admission, once, in admission order, and is
\* neither dropped, nor left in the queue, nor put into a second block.
C4_AdmittedExactlyOnce ==
    /\ \A p \in 2..Len(chain) :
        /\ chain[p].transactions # <<>>
        /\ IsReward(chain[p].transactions[Len(chain[p].transactions)])
        /\ UserTransactions(chain[p].transactions) = AdmittedAt(p - 1)
    /\ chain[1].transactions = <<>>
    /\ pc = "idle" => pendingTransactions = AdmittedAt(Len(chain))
    /\ pc = "mining" =>
        /\ pendingTransactions # <<>>
        /\ UserTransactions(pendingTransactions) = AdmittedAt(Len(chain))
    /\ \A k \in DOMAIN admitted : admitted[k].height \in 1..Len(chain)

\* An admitted transfer was mined into the next block and a later admission
\* waits in the queue.
C4_Witness ==
    /\ pc = "idle"
    /\ Len(chain) = 3
    /\ Len(chain[3].transactions) >= 2
    /\ Len(pendingTransactions) >= 1
    /\ Len(admitted) >= 2

\* A step that is one whole call of addTransaction.
AddStep ==
    /\ pc = "idle"
    /\ pc' = "idle"
    /\ now' = now
    /\ last'.op = "addTransaction"

\* C5: a call of addTransaction that fails leaves the queue and the chain
\* as they were; one that succeeds appends exactly its transaction at the
\* end of the queue and leaves the chain as it was.
C5_AddAllOrNothing ==
    [][AddStep =>
        /\ chain' = chain
        /\ IF last'.result = "ok"
           THEN /\ Len(admitted') = Len(admitted) + 1
                /\ pendingTransactions' =
                       Append(pendingTransactions,
                              admitted'[Len(admitted')].tx)
           ELSE /\ pendingTransactions' = pendingTransactions
                /\ admitted' = admitted]_vars

\* A call was rejected for its amount while the queue held a transfer.
C5_Witness ==
    /\ last.op = "addTransaction"
    /\ last.result = "InvalidAmount"
    /\ Len(pendingTransactions) >= 1

\* A transaction that passes the address, amount and signature checks.
WellFormed(tx) ==
    /\ ~Falsy(tx.fromAddress)
    /\ ~Falsy(tx.toAddress)
    /\ tx.amount > 0
    /\ IsValid(tx)

\* C6: for a transaction with both addresses, a positive amount and a valid
\* signature, addTransaction fails with InsufficientBalance exactly when
\* the sender's balance is below the amount; a transfer of the whole
\* balance is admitted.
C6_InsufficientBalanceExactly ==
    /\ pc = "idle" =>
        \A tx \in TxInputs(now) :
            WellFormed(tx) =>
                LET balance == getBalanceOfAddress(chain, tx.fromAddress)
                    result == AddTransactionResult(chain, tx)
                IN  /\ result = "InsufficientBalance" <=> balance < tx.amount
                    /\ result = "ok" <=> balance >= tx.amount
    /\ (last.op = "addTransaction" /\ last.result = "ok") =>
        LET tx == pendingTransactions[Len(pendingTransactions)]
        IN  getBalanceOfAddress(chain, tx.fromAddress) >= tx.amount

\* The sender's whole balance was offered and admitted.
C6_Witness ==
    /\ last.op = "addTransaction"
    /\ last.result = "ok"
    /\ LET tx == pendingTransactions[Len(pendingTransactions)]
       IN  /\ tx.fromAddress = AddrA
           /\ getBalanceOfAddress(chain, AddrA) = tx.amount

\* The signature of tx is the one a key whose address is the sender
\* produces over the fields tx has now.
SignedBySender(tx) ==
    \E k \in PrivateKeys :
        /\ WalletAddress(k) = tx.fromAddress
        /\ tx.signature =
               SignTransaction([tx EXCEPT !.signature = NoSignature],
                               k).signature

RECURSIVE Flatten(_, _)
\* The transactions of the blocks of c from position i on, in order.
Flatten(c, i) ==
    IF i > Len(c) THEN <<>> ELSE c[i].transactions \o Flatten(c, i + 1)

\* The transactions changed after signing that a caller could have handed
\* in so far.
ChangedSoFar == UNION {SignedThenChanged(t) : t \in 0..now}

\* C7: addTransaction admits a non-coinbase transaction only if its
\* signature was made over its current fields by the key of its sender's
\* address; with addresses and a positive amount given, an unsigned one,
\* one signed by another key and one changed after signing are rejected
\* with InvalidSignature; so every non-coinbase transaction in the queue
\* or in a block passes isValid(), and none of them was changed after it
\* was signed.
C7_OnlySignedAdmitted ==
    /\ pc = "idle" =>
        \A tx \in TxInputs(now) :
            LET result == AddTransactionResult(chain, tx)
            IN  /\ result = "ok" => SignedBySender(tx)
                /\ (/\ ~Falsy(tx.fromAddress)
                    /\ ~Falsy(tx.toAddress)
                    /\ tx.amount > 0
                    /\ ~SignedBySender(tx)) => result = "InvalidSignature"
    /\ LET txs == Flatten(chain, 1) \o pendingTransactions
       IN  \A j \in DOMAIN txs :
               txs[j].fromAddress # Null =>
                   /\ IsValid(txs[j])
                   /\ SignedBySender(txs[j])
                   /\ txs[j] \notin ChangedSoFar

\* The places <<block, transaction>> of the transactions stored in c.
TxPositions(c) ==
    UNION {{<<i, j>> : j \in DOMAIN c[i].transactions} : i \in DOMAIN c}

TxAt(c, p) == c[p[1]].transactions[p[2]]

RECURSIVE SumAmounts(_, _)
\* The sum of the amounts at a set of places, taken in no particular order.
SumAmounts(c, places) ==
    IF places = {} THEN 0
    ELSE LET p == CHOOSE q \in places : TRUE
         IN  TxAt(c, p).amount + SumAmounts(c, places \ {p})

Credited(c, address) ==
    SumAmounts(c, {p \in TxPositions(c) : TxAt(c, p).toAddress = address})

Debited(c, address) ==
    SumAmounts(c, {p \in TxPositions(c) : TxAt(c, p).fromAddress = address})

\* c with the transactions of block i put in the order perm.
Reordered(c, i, perm) ==
    LET txs == c[i].transactions
    IN  [c EXCEPT ![i].transactions = [j \in DOMAIN txs |-> txs[perm[j]]]]

\* An address no transaction ever names.
AddrNobody == Sha256(StrangerKey)

Accounts == {AddrA, AddrB, AddrC, AddrNobody}

MineReturn ==
    /\ pc = "mining"
    /\ pc' = "idle"

RECURSIVE LeadingZerosFrom(_, _)
\* The number of '0' characters at the start of s, counted from place i.
LeadingZerosFrom(s, i) ==
    IF i > Len(s) \/ s[i] # "0" THEN 0 ELSE 1 + LeadingZerosFrom(s, i + 1)

LeadingZeros(s) == LeadingZerosFrom(s, 1)

\* C11 as stated: the hash of every block minePendingTransactions appended
\* has exactly difficulty leading '0' characters.
C11_ExactlyDifficultyZeros ==
    \A p \in 2..Len(chain) : LeadingZeros(chain[p].hash) = difficulty

\* C11 as the code has it: the first difficulty characters of the hash of
\* every block minePendingTransactions appended are all '0'; the hash has
\* at least that many leading '0' characters.
C11_AtLeastDifficultyZeros ==
    \A p \in 2..Len(chain) :
        /\ Len(chain[p].hash) >= difficulty
        /\ \A k \in 1..difficulty : chain[p].hash[k] = "0"
        /\ LeadingZeros(chain[p].hash) >= difficulty

\* A block found by a nonce search was appended with one more leading '0'
\* than the difficulty asks for.
C11_Witness ==
    /\ JustMined
    /\ last.result = "ok"
    /\ chain[Len(chain)].nonce > 0
    /\ LeadingZeros(chain[Len(chain)].hash) > difficulty

\* The step on which minePendingTransactions is entered.
MineCall ==
    /\ pc = "idle"
    /\ pc' = "mining"

\* C12: minePendingTransactions(rewardAddress) appends exactly one block;
\* its index is the chain length before the call, its previousHash the hash
\* of the former latest block, its transactions the whole queue in order
\* followed by one reward transaction (no sender, rewardAddress, the mining
\* reward); afterwards the queue is empty and the block the call built and
\* returns is the latest block.
C12_MinedBlockShape ==
    [][/\ MineCall =>
            /\ chain' = chain
            /\ Len(pendingTransactions') = Len(pendingTransactions) + 1
            /\ UserTransactions(pendingTransactions') = pendingTransactions
            /\ LET rewardTx == pendingTransactions'[Len(pendingTransactions')]
               IN  /\ IsReward(rewardTx)
                   /\ rewardTx.toAddress = last'.arg
                   /\ rewardTx.amount = miningReward
       /\ MineReturn =>
            /\ Len(chain') = Len(chain) + 1
            /\ SubSeq(chain', 1, Len(chain)) = chain
            /\ LET tip == chain'[Len(chain')]
               IN  /\ tip.index = Len(chain)
                   /\ tip.previousHash = chain[Len(chain)].hash
                   /\ tip.transactions = pendingTransactions
                   /\ tip.index = block.index
                   /\ tip.timestamp = block.timestamp
                   /\ tip.previousHash = block.previousHash
                   /\ tip = getLatestBlock(chain')
            /\ pendingTransactions' = <<>>]_vars

\* A block was mined over a queue of two different transfers.
C12_Witness ==
    /\ JustMined
    /\ last.result = "ok"
    /\ Len(chain[Len(chain)].transactions) = 3
    /\ chain[Len(chain)].transactions[1] # chain[Len(chain)].transactions[2]
    /\ pendingTransactions = <<>>

\* The genesis block as the constructor made it.
GenesisInPlace ==
    /\ Len(chain) >= 1
    /\ chain[1] = createGenesisBlock(0)
    /\ chain[1].index = 0
    /\ chain[1].transactions = <<>>
    /\ chain[1].previousHash = <<"0">>

\* C13: the chain only grows at its end: on every step the chain before is
\* a prefix of the chain after, so no appended block or transaction list
\* ever changes and the length never decreases; the first block is always
\* the genesis block of the constructor.
C13_AppendOnly ==
    /\ []GenesisInPlace
    /\ [][/\ Len(chain') >= Len(chain)
          /\ SubSeq(chain', 1, Len(chain)) = chain]_vars

\* Two blocks were appended and a transfer admitted after them.
C13_Witness ==
    /\ Len(chain) = 3
    /\ last.op = "addTransaction"
    /\ last.result = "ok"
    /\ Len(chain[3].transactions) >= 2

\* C14: every transaction in the queue and in every block has an amount
\* above 0.
C14_AmountsPositive ==
    LET txs == Flatten(chain, 1) \o pendingTransactions
    IN  \A j \in DOMAIN txs : Lt(0, txs[j].amount)

\* The transaction is as signTransaction left it.
Untouched ==
    /\ client.signedTx # NoTransaction
    /\ client.tx = client.signedTx

\* C15: a transaction whose sender is the address of private key k is
\* valid after signTransaction(k), whatever its recipient and amount.
C15_SignedBySenderIsValid ==
    (/\ Untouched
     /\ client.tx.fromAddress = WalletFromPrivateKey(client.signKey).address)
        => /\ IsValid(client.tx)
           /\ client.op = "isValid" => client.result = "true"

\* isValid() answered true for a transfer of NaN to nobody, signed with
\* the key of its sender.
C15_Witness ==
    /\ Untouched
    /\ client.op = "isValid"
    /\ client.result = "true"
    /\ client.tx.fromAddress = AddrC
    /\ client.tx.toAddress = Null
    /\ client.tx.amount = NaN

\* C16: once a transaction is signed, isValid() is false after its amount
\* or its timestamp has been changed.
C16_ChangeInvalidates ==
    (/\ client.signedTx # NoTransaction
     /\ client.tx.fromAddress # Null
     /\ client.tx.signature = client.signedTx.signature
     /\ \/ client.tx.amount # client.signedTx.amount
        \/ client.tx.timestamp # client.signedTx.timestamp)
        => ~IsValid(client.tx)

\* C17: isValid() answers true or false and nothing else: true for a
\* reward transaction whatever else it holds, false for any other
\* transaction without a signature, false when the recovery of the public
\* key fails.
C17_FailClosed ==
    LET tx == client.tx
        unsigned == tx.signature.isNull \/ tx.signature.signature = <<>>
    IN  /\ tx.fromAddress = Null => IsValid(tx)
        /\ (tx.fromAddress # Null /\ unsigned) => ~IsValid(tx)
        /\ (/\ tx.fromAddress # Null
            /\ ~unsigned
            /\ ecdsaRecover(tx.signature.signature, tx.signature.recovery,
                            TxCalculateHash(tx)) = Throws) => ~IsValid(tx)
        /\ client.op = "isValid" =>
            /\ client.result \in {"true", "false"}
            /\ client.result = "true" <=> IsValid(tx)

\* isValid() answered false for a signed transfer whose recovery id was
\* overwritten with a value the recovery refuses.
C17_Witness ==
    /\ client.op = "isValid"
    /\ client.result = "false"
    /\ client.tx.fromAddress # Null
    /\ ~client.tx.signature.isNull
    /\ client.tx.signature.recovery = 5

\* C18: fromPrivateKey given the privateKey generate() returned gives the
\* publicKey and the address generate() returned.
C18_ImportReproducesWallet ==
    /\ \A k \in PrivateKeys :
        LET generated == WalletGenerate(k)
            imported == WalletFromPrivateKey(generated.privateKey)
        IN  /\ imported # NoWallet
            /\ imported.publicKey = generated.publicKey
            /\ imported.address = generated.address
    /\ (/\ client.op = "fromPrivateKey"
        /\ client.result = "ok"
        /\ client.wallet.privateKey = client.issued.privateKey)
            => /\ client.wallet.publicKey = client.issued.publicKey
               /\ client.wallet.address = client.issued.address

\* The key of a generated wallet, one with bytes below 16, was imported
\* after another wallet's key had been.
C18_Witness ==
    /\ client.op = "fromPrivateKey"
    /\ client.result = "ok"
    /\ client.issued.address = AddrA
    /\ client.wallet = client.issued
    /\ client.tx.fromAddress = AddrB


\* C19: a block's stored hash right after construction equals
\* calculateHash() evaluated on its stored fields, whose nonce is 0; so a
\* block committed with nonce 0 (no nonce search needed) has a stored hash
\* equal to its recomputed hash.  The blocks right after construction are
\* the one minePendingTransactions has built and not yet mined, and the
\* genesis block, which is never mined.
C19_HashAtNonceZero ==
    /\ pc = "mining" =>
           /\ block.nonce = 0
           /\ block.hash = BlockCalculateHash(block)
    /\ \A i \in 1..Len(chain) :
           chain[i].nonce = 0 => chain[i].hash = BlockCalculateHash(chain[i])

\* C20: after any sequence of addTransaction and minePendingTransactions
\* calls on a new ledger, getBalanceOfAddress(a) >= 0 for every address a.
C20_BalancesNeverNegative ==
    \A a \in Accounts : getBalanceOfAddress(chain, a) >= 0


\* C21: one signed transaction takes effect at most once: submitted again
\* after its admission, while it waits or after it was mined, it is
\* rejected, so no signed transaction is twice in the queue and the chain.
C21_AdmittedAtMostOnce ==
    LET txs == Flatten(chain, 1) \o pendingTransactions
    IN  \A i, j \in DOMAIN txs :
            (i # j /\ txs[i].fromAddress # Null) => txs[i] # txs[j]


\* The checks of addTransaction a transaction fails, each taken alone.
FailedChecks(c, tx) ==
    (IF Falsy(tx.fromAddress) \/ Falsy(tx.toAddress)
     THEN {"MissingAddress"} ELSE {})
    \cup (IF tx.amount <= 0 THEN {"InvalidAmount"} ELSE {})
    \cup (IF ~IsValid(tx) THEN {"InvalidSignature"} ELSE {})
    \cup (IF ~Falsy(tx.fromAddress)
             /\ getBalanceOfAddress(c, tx.fromAddress) < tx.amount
          THEN {"InsufficientBalance"} ELSE {})

\* The order in which addTransaction is said to check.
CheckOrder ==
    <<"MissingAddress", "InvalidAmount", "InvalidSignature",
      "InsufficientBalance">>

\* The first check in CheckOrder among those in failed, "ok" if none is.
FirstFailure(failed) ==
    IF failed = {} THEN "ok"
    ELSE CheckOrder[CHOOSE i \in DOMAIN CheckOrder :
                        /\ CheckOrder[i] \in failed
                        /\ \A j \in 1..(i - 1) : CheckOrder[j] \notin failed]

\* C22: addTransaction reports the first failing check in the order
\* MissingAddress, InvalidAmount, InvalidSignature, InsufficientBalance: a
\* transaction without sender and with a negative amount gets
\* MissingAddress, an unsigned one with amount <= 0 gets InvalidAmount.
C22_FirstFailingCheckReported ==
    /\ pc = "idle" =>
        \A tx \in TxInputs(now) :
            AddTransactionResult(chain, tx) =
                FirstFailure(FailedChecks(chain, tx))
    /\ last.op = "addTransaction" =>
        \E tx \in UNION {TxInputs(t) : t \in 0..now} :
            last.result \in FailedChecks(chain, tx) \cup {"ok"}

\* A call was rejected for missing addresses while the inputs at hand hold
\* a transaction that fails three of the checks at once.
C22_Witness ==
    /\ last.op = "addTransaction"
    /\ last.result = "MissingAddress"
    /\ Len(pendingTransactions) >= 1
    /\ \E tx \in TxInputs(now) :
           Cardinality(FailedChecks(chain, tx)) >= 3


\* C23: every block after the genesis block holds exactly one coinbase
\* transaction (sender none): its last one, of the reward amount and
\* without a signature; addTransaction rejects a transaction with sender
\* none with MissingAddress, so none is ever admitted and coinbase
\* transactions come from minePendingTransactions only.
C23_OneCoinbasePerBlock ==
    /\ \A p \in 2..Len(chain) :
        LET txs == chain[p].transactions
            n == Len(txs)
        IN  /\ n >= 1
            /\ txs[n].fromAddress = Null
            /\ txs[n].amount = miningReward
            /\ txs[n].signature = NoSignature
            /\ \A j \in 1..(n - 1) : txs[j].fromAddress # Null
    /\ pc = "idle" =>
        /\ \A tx \in TxInputs(now) :
               tx.fromAddress = Null =>
                   AddTransactionResult(chain, tx) = "MissingAddress"
        /\ \A j \in DOMAIN pendingTransactions :
               pendingTransactions[j].fromAddress # Null
    /\ \A k \in DOMAIN admitted : admitted[k].tx.fromAddress # Null

\* A block with a transfer before its coinbase transaction is in the chain
\* and a later call was rejected for its addresses.
C23_Witness ==
    /\ Len(chain) = 3
    /\ Len(chain[3].transactions) = 2
    /\ chain[3].transactions[1].fromAddress = AddrA
    /\ last.op = "addTransaction"
    /\ last.result = "MissingAddress"


\* The addresses that appear in the chain as a sender or a recipient.
AddressesIn(c) ==
    ({TxAt(c, p).fromAddress : p \in TxPositions(c)}
     \cup {TxAt(c, p).toAddress : p \in TxPositions(c)}) \ {Null}

RECURSIVE TotalBalance(_, _)
\* The sum of getBalanceOfAddress over a set of addresses.
TotalBalance(c, addresses) ==
    IF addresses = {} THEN 0
    ELSE LET a == CHOOSE b \in addresses : TRUE
         IN  Add(getBalanceOfAddress(c, a),
                 TotalBalance(c, addresses \ {a}))

\* C24: value is conserved: in every reachable state the balances of all
\* addresses that appear in the chain add up to the reward times the
\* number of mined blocks.
C24_ValueConserved ==
    TotalBalance(chain, AddressesIn(chain)) = miningReward * (Len(chain) - 1)


\* The fields of a transaction that its hash covers.
Content(tx) == <<tx.fromAddress, tx.toAddress, tx.amount, tx.timestamp>>

\* C25: two transactions that differ in sender, recipient, amount or
\* timestamp, or in several of them, have different hash inputs, so the
\* signature made for one is not accepted by isValid() on the other.
C25_HashInputSeparatesFields ==
    (/\ client.signedTx # NoTransaction
     /\ client.tx.fromAddress # Null
     /\ Content(client.tx) # Content(client.signedTx))
        => /\ TxHashInput(client.tx) # TxHashInput(client.signedTx)
           /\ client.tx.signature = client.signedTx.signature
                  => ~IsValid(client.tx)


\* The index, the timestamp or both of one block given other values.
WithIndexAndTimestamp(c, i, x, t) ==
    [c EXCEPT ![i].index = x, ![i].timestamp = t]

IndexTimestampCorruptions(c, i) ==
    {WithIndexAndTimestamp(c, i, x, t) :
        x \in {c[i].index - 1, c[i].index, c[i].index + 1},
        t \in {c[i].timestamp - 1, c[i].timestamp, c[i].timestamp + 1}}
    \ {c}

\* C26: two blocks that differ in index, timestamp or both and in nothing
\* else have different hash inputs, so on a valid chain isChainValid()
\* returns false after any change of the index, the timestamp or both of
\* a block other than the genesis block.
C26_BlockHashSeparatesFields ==
    isChainValid(chain) =>
        \A i \in 2..Len(chain) :
            \A c \in IndexTimestampCorruptions(chain, i) :
                /\ BlockHashInput(c[i]) # BlockHashInput(chain[i])
                /\ ~isChainValid(c)


\* The search of the block being mined has a solution: the hash it has
\* now, or the hash at one of the nonces still to come, starts with the
\* zeros.
Solvable ==
    \/ MeetsDifficulty(block.hash, difficulty)
    \/ \E n \in (block.nonce + 1)..MaxNonce :
           MeetsDifficulty(BlockCalculateHash([block EXCEPT !.nonce = n]),
                           difficulty)

\* No hash can meet the difficulty: it asks for more zeros than a hash has
\* characters.
Unsolvable == difficulty > Len(block.hash)

\* C27: mining ends only by finding a solution.  If a nonce reached by
\* counting up gives a hash with d leading zeros, the call returns in the
\* end, and when it returns the block is appended with such a hash and the
\* queue is empty; if no hash can have d leading zeros the call never
\* returns, the chain stays as it was and the reward transaction stays at
\* the end of the queue.
C27_MiningEndsOnlyWithSolution ==
    /\ (pc = "mining" /\ Solvable) ~> (pc = "idle")
    /\ [][MineReturn =>
            /\ Len(chain') = Len(chain) + 1
            /\ MeetsDifficulty(chain'[Len(chain')].hash, difficulty)
            /\ pendingTransactions' = <<>>]_vars
    /\ [][(pc = "mining" /\ Unsolvable) =>
            /\ pc' = "mining"
            /\ chain' = chain
            /\ pendingTransactions' = pendingTransactions
            /\ pendingTransactions # <<>>
            /\ IsReward(pendingTransactions[Len(pendingTransactions)])]_vars

\* After one call that found its solution, a second call searches for a
\* hash that cannot exist and has counted as far as the model follows it.
C27_Witness ==
    /\ pc = "mining"
    /\ Unsolvable
    /\ block.nonce = MaxNonce
    /\ Len(chain) = 2
    /\ chain[2].nonce > 0

=============================================================================
